---- MODULE Spec2Model ----
(***************************************************************************)
(* A model of consumer.py of osm-odf-minutely-fetcher: parse_osm_create    *)
(* (the create-action decoder with its way geometry, tag rows and the      *)
(* module-global changeset maximum) and main (retrieval, row building, CSV *)
(* output and the checkpoint file).                                        *)
(*                                                                         *)
(* Four specifications share the variables:                                *)
(*   Spec      one call of parse_osm_create, one loop iteration per step;  *)
(*   SpecCalls several calls of parse_osm_create in one process;           *)
(*   SpecGeom  the geometry construction of one way (lines 116-138);       *)
(*   SpecMain  one run of main.                                            *)
(***************************************************************************)
EXTENDS Integers, Sequences, FiniteSets, TLC

VARIABLES
    max_changeset_id,   \* the module global read and written at line 86
    initial_global,     \* history: max_changeset_id when the process started
    doc,                \* the <action> children of the parsed root, in order
    i,                  \* index of the next action of the loop at line 58
    nodes_rows, ways_rows, relations_rows, members_rows, tags_rows,
    pc,                 \* "idle" | "loop" | "returned" | "raised"
    exc,                \* the exception that ended the call, "" for none
    calls,              \* calls of parse_osm_create started so far
    nds,                \* SpecGeom: the <nd> children of the way
    nd_i,               \* SpecGeom: index of the next <nd>
    coords,             \* SpecGeom: the list built at lines 116-128
    wkt_geom,           \* SpecGeom: the value assigned at lines 129-138
    gpc,                \* SpecGeom: "nd" (in the loop) | "done"
    argv_len,           \* SpecMain: len(sys.argv)
    flags,              \* SpecMain: NODES, WAYS, RELATIONS, MEMBERS, TAGS
    etag_path_bound,    \* SpecMain: whether the global ETAG_PATH is bound
    adiff_create,       \* SpecMain: adiff.create after retrieve()
    m_rows,             \* SpecMain: the five lists built at lines 202-210
    csv_files,          \* SpecMain: CSV file name -> rows written, by file
    etag_file,          \* SpecMain: text of the checkpoint file
    etag_before,        \* SpecMain: history, its text when the run started
    etag_opened,        \* SpecMain: history, open(ETAG_PATH, "w") was called
    mpc,                \* SpecMain: position in main
    mexc                \* SpecMain: how the run ended, "" while running

parseVars == <<doc, i, nodes_rows, ways_rows, relations_rows, members_rows,
               tags_rows, pc, exc, calls>>
geomVars == <<nds, nd_i, coords, wkt_geom, gpc>>
mainVars == <<argv_len, flags, etag_path_bound, adiff_create, m_rows,
              csv_files, etag_file, etag_before, etag_opened, mpc, mexc>>
vars == <<max_changeset_id, initial_global, parseVars, geomVars, mainVars>>

-----------------------------------------------------------------------------
(* Bounds of the model *)

MaxActions == 2     \* <action> children per document
MaxCalls == 2       \* calls of parse_osm_create per process
MaxNds == 5         \* <nd> children of the way of SpecGeom
MaxCreated == 2     \* objects in adiff.create

-----------------------------------------------------------------------------
(* Python values *)

\* None, as returned by dict.get for an absent key.
None == "None"

\* attrib.get(k)
Get(attrib, k) == IF k \in DOMAIN attrib THEN attrib[k] ELSE None

\* A global name of the module: unbound until something assigns it.
Unbound == [bound |-> FALSE, val |-> 0]
Bound(n) == [bound |-> TRUE, val |-> n]

Max(a, b) == IF a >= b THEN a ELSE b

\* int(text) for the decimal texts of the model; any other text is a
\* ValueError, None a TypeError.
DecimalValue == ("3" :> 3) @@ ("5" :> 5) @@ ("12" :> 12)

\* float(text) for the texts of the model (values in units of 1.0); any other
\* text is a ValueError.
FloatValue == ("0" :> 0) @@ ("0.0" :> 0) @@ ("1" :> 1) @@ ("1.0" :> 1)

\* f"{x}" of a float.
FloatText == (0 :> "0.0") @@ (1 :> "1.0")

\* int(datetime.strptime(ts, "%Y-%m-%dT%H:%M:%SZ").timestamp() * 1000), as
\* text, with the local time zone UTC; None for no timestamp or a failed parse.
EpochMillis(timestamp) ==
    IF timestamp = None \/ timestamp = "" THEN None
    ELSE IF timestamp = "2025-03-03T11:55:24Z" THEN "1740999324000"
    ELSE None

-----------------------------------------------------------------------------
(* The documents *)

NoAttrib == [k \in {} |-> None]

Element(tag, attrib, tags, ndrefs, members) ==
    [tag |-> tag, attrib |-> attrib, tags |-> tags, nds |-> ndrefs,
     members |-> members]

\* find() found nothing.
NoElem == Element("", NoAttrib, <<>>, <<>>, <<>>)

NodeA ==
    Element("node",
            [id |-> "1", version |-> "1", changeset |-> "5", user |-> "ann",
             uid |-> "7", timestamp |-> "2025-03-03T11:55:24Z",
             lat |-> "0.0", lon |-> "1.0"],
            <<[k |-> "name", v |-> "x"]>>, <<>>, <<>>)
NodeB ==
    Element("node",
            [id |-> "2", version |-> "1", changeset |-> "12", lat |-> "1",
             lon |-> "1"],
            <<[k |-> "id", v |-> "n2"], [k |-> "amenity", v |-> "cafe"]>>,
            <<>>, <<>>)
NodeNoChangeset ==
    Element("node", [id |-> "3", timestamp |-> "yesterday"], <<>>, <<>>, <<>>)
NodeBadChangeset ==
    Element("node", [id |-> "4", changeset |-> "abc"],
            <<[k |-> "name", v |-> "y"]>>, <<>>, <<>>)
WayRing ==
    Element("way", [id |-> "10", version |-> "2", changeset |-> "3"],
            <<[k |-> "building", v |-> "yes"]>>,
            <<[ref |-> "1", lat |-> "0", lon |-> "0"],
              [ref |-> "2", lat |-> "0", lon |-> "1"],
              [ref |-> "3", lat |-> "1", lon |-> "1"],
              [ref |-> "1", lat |-> "0.0", lon |-> "0.0"]>>,
            <<>>)
WayOpen ==
    Element("way", [id |-> "11", changeset |-> "12"], <<>>,
            <<[ref |-> "1", lat |-> "0", lon |-> "0"],
              [ref |-> "5"],
              [ref |-> "6", lat |-> "north", lon |-> "1"],
              [ref |-> "3", lat |-> "1", lon |-> "1"]>>,
            <<>>)
RelationA ==
    Element("relation", [id |-> "20", version |-> "1", changeset |-> "12"],
            <<[k |-> "type", v |-> "route"]>>, <<>>,
            <<[type |-> "way", ref |-> "10", role |-> "outer"],
              [type |-> "node", ref |-> "1", role |-> "stop"]>>)
RelationB ==
    Element("relation", [id |-> "21", changeset |-> "5"], <<>>, <<>>,
            <<[type |-> "node", ref |-> "2"]>>)
Note ==
    Element("note", [id |-> "30", changeset |-> "12"],
            <<[k |-> "text", v |-> "hi"]>>, <<>>, <<>>)
\* A <new/> or <old/> wrapper without attributes, as find("*") returns it for
\* an action whose first child is the wrapper.
Wrapper == Element("new", NoAttrib, <<>>, <<>>, <<>>)

Elements ==
    {NodeA, NodeB, NodeNoChangeset, NodeBadChangeset, WayRing, WayOpen,
     RelationA, RelationB, Note, Wrapper}

\* An <action>: its type attribute, the first element under a <new> child
\* (find("new/*")) and its first child element (find("*")).
Action(type, new, first) == [type |-> type, new |-> new, first |-> first]

Actions ==
    {Action("create", NoElem, e) : e \in Elements}
    \cup {Action("create", NoElem, NoElem),
          Action("create", NodeB, Wrapper),
          Action(None, NoElem, NodeB)}
    \cup {Action(t, NoElem, e) : t \in {"modify", "delete"}, e \in {NodeB, WayRing}}
    \cup {Action("modify", RelationA, Wrapper)}

Documents == UNION {[1..n -> Actions] : n \in 0..MaxActions}

\* The states the global can be in when the process starts using the module:
\* unbound, as the module leaves it (no module-level statement assigns it), or
\* bound to 0 by a caller that imports the module and initialises it.
InitialGlobals == {Unbound, Bound(0)}

-----------------------------------------------------------------------------
(* parse_osm_create *)

\* Lines 63-68: the created element of an action.
FindElem(action) == IF action.new # NoElem THEN action.new ELSE action.first

\* Lines 120-128: one <nd> of a way.
AppendNd(cs, nd) ==
    LET lat == Get(nd, "lat")
        lon == Get(nd, "lon")
    IN  IF lat # None /\ lon # None
        THEN IF lon \in DOMAIN FloatValue /\ lat \in DOMAIN FloatValue
             THEN Append(cs, <<FloatValue[lon], FloatValue[lat]>>)
             ELSE cs
        ELSE cs

\* Lines 116-128: the coordinate list of a way.
RECURSIVE WayCoords(_)
WayCoords(ndrefs) ==
    IF ndrefs = <<>> THEN <<>>
    ELSE AppendNd(WayCoords(SubSeq(ndrefs, 1, Len(ndrefs) - 1)),
                  ndrefs[Len(ndrefs)])

\* ", ".join(f"{pt[0]} {pt[1]}" for pt in coords)
RECURSIVE CoordStr(_)
CoordStr(cs) ==
    IF cs = <<>> THEN ""
    ELSE LET pt == cs[1]
             text == FloatText[pt[1]] \o " " \o FloatText[pt[2]]
         IN  IF Len(cs) = 1 THEN text ELSE text \o ", " \o CoordStr(Tail(cs))

\* BuildWkt with the ring test off by one (>= 3 for >= 4).
BuildWktThreePoints(cs) ==
    IF cs # <<>>
    THEN IF Len(cs) >= 3 /\ cs[1] = cs[Len(cs)]
         THEN "POLYGON((" \o CoordStr(cs) \o "))"
         ELSE "LINESTRING(" \o CoordStr(cs) \o ")"
    ELSE ""

\* Lines 129-138.
BuildWkt(cs) ==
    IF cs # <<>>
    THEN IF Len(cs) >= 4 /\ cs[1] = cs[Len(cs)]
         THEN "POLYGON((" \o CoordStr(cs) \o "))"
         ELSE "LINESTRING(" \o CoordStr(cs) \o ")"
    ELSE ""

\* Lines 89-100.
TagRows(elem, epochMillis) ==
    [t \in 1..Len(elem.tags) |->
        [epochMillis |-> epochMillis, type |-> elem.tag,
         id |-> Get(elem.attrib, "id"), key |-> Get(elem.tags[t], "k"),
         value |-> Get(elem.tags[t], "v")]]

\* Lines 103-112.
NodeRow(elem, epochMillis) ==
    [epochMillis |-> epochMillis, id |-> Get(elem.attrib, "id"),
     version |-> Get(elem.attrib, "version"),
     changeset |-> Get(elem.attrib, "changeset"),
     username |-> Get(elem.attrib, "user"), uid |-> Get(elem.attrib, "uid"),
     lat |-> Get(elem.attrib, "lat"), lon |-> Get(elem.attrib, "lon")]

\* Lines 139-147.
WayRow(elem, epochMillis) ==
    [epochMillis |-> epochMillis, id |-> Get(elem.attrib, "id"),
     version |-> Get(elem.attrib, "version"),
     changeset |-> Get(elem.attrib, "changeset"),
     username |-> Get(elem.attrib, "user"), uid |-> Get(elem.attrib, "uid"),
     geometry |-> BuildWkt(WayCoords(elem.nds))]

\* Lines 152-159.
RelationRow(elem, epochMillis) ==
    [epochMillis |-> epochMillis, id |-> Get(elem.attrib, "id"),
     version |-> Get(elem.attrib, "version"),
     changeset |-> Get(elem.attrib, "changeset"),
     username |-> Get(elem.attrib, "user"), uid |-> Get(elem.attrib, "uid")]

\* The locals and the global of a call: st.g is max_changeset_id, st.exc the
\* exception raised ("" for none).
Frame(g, n, w, r, m, t, e) ==
    [g |-> g, nodes |-> n, ways |-> w, relations |-> r, members |-> m,
     tags |-> t, exc |-> e]

\* Lines 70-170: the body of the loop for the element found. Line 86
\* evaluates max_changeset_id before int(...), so an unbound global raises
\* first; int(None) is a TypeError, int of a non-numeric text a ValueError.
\* The tag rows are appended before the type is looked at. The member rows of
\* lines 163-170 are built and dropped: nothing appends them to members_rows.
ProcessElem(st, elem) ==
    LET epochMillis == EpochMillis(Get(elem.attrib, "timestamp"))
        changeset == Get(elem.attrib, "changeset")
    IN  IF ~st.g.bound THEN [st EXCEPT !.exc = "NameError"]
        ELSE IF changeset = None THEN [st EXCEPT !.exc = "TypeError"]
        ELSE IF changeset \notin DOMAIN DecimalValue
        THEN [st EXCEPT !.exc = "ValueError"]
        ELSE
        LET g2 == Bound(Max(st.g.val, DecimalValue[changeset]))
            tags2 == st.tags \o TagRows(elem, epochMillis)
        IN  IF elem.tag = "node"
            THEN [st EXCEPT !.g = g2, !.tags = tags2,
                            !.nodes = Append(@, NodeRow(elem, epochMillis))]
            ELSE IF elem.tag = "way"
            THEN [st EXCEPT !.g = g2, !.tags = tags2,
                            !.ways = Append(@, WayRow(elem, epochMillis))]
            ELSE IF elem.tag = "relation"
            THEN [st EXCEPT !.g = g2, !.tags = tags2,
                            !.relations =
                                Append(@, RelationRow(elem, epochMillis))]
            ELSE [st EXCEPT !.g = g2, !.tags = tags2]

\* ProcessAction without the test of the action type at line 60.
ProcessActionAnyType(st, action) ==
    IF FindElem(action) = NoElem THEN st
    ELSE ProcessElem(st, FindElem(action))

\* Lines 59-68: only create actions that hold an element are processed.
ProcessAction(st, action) ==
    IF action.type # "create" THEN st
    ELSE IF FindElem(action) = NoElem THEN st
    ELSE ProcessElem(st, FindElem(action))

\* Lines 48-55: the document is parsed and the five lists start empty.
Enter(d) ==
    /\ calls' = calls + 1
    /\ doc' = d
    /\ i' = 1
    /\ nodes_rows' = <<>>
    /\ ways_rows' = <<>>
    /\ relations_rows' = <<>>
    /\ members_rows' = <<>>
    /\ tags_rows' = <<>>
    /\ pc' = "loop"
    /\ exc' = ""
    /\ UNCHANGED <<max_changeset_id, initial_global, geomVars, mainVars>>

\* The first call of parse_osm_create in the process.
Call(d) ==
    /\ pc = "idle"
    /\ Enter(d)

\* A later call, after the one before returned or raised: the module global
\* keeps its value between calls.
CallAgain(d) ==
    /\ pc \in {"returned", "raised"}
    /\ calls < MaxCalls
    /\ Enter(d)

\* Lines 58-170: one iteration of the loop over the actions.
Iterate ==
    /\ pc = "loop"
    /\ i <= Len(doc)
    /\ LET st == ProcessAction(
                    Frame(max_changeset_id, nodes_rows, ways_rows,
                          relations_rows, members_rows, tags_rows, ""),
                    doc[i])
       IN  /\ max_changeset_id' = st.g
           /\ nodes_rows' = st.nodes
           /\ ways_rows' = st.ways
           /\ relations_rows' = st.relations
           /\ members_rows' = st.members
           /\ tags_rows' = st.tags
           /\ exc' = st.exc
           /\ IF st.exc = ""
              THEN pc' = "loop" /\ i' = i + 1
              ELSE pc' = "raised" /\ i' = i
    /\ UNCHANGED <<initial_global, doc, calls, geomVars, mainVars>>

\* Line 172.
Return ==
    /\ pc = "loop"
    /\ i > Len(doc)
    /\ pc' = "returned"
    /\ UNCHANGED <<max_changeset_id, initial_global, doc, i, nodes_rows,
                   ways_rows, relations_rows, members_rows, tags_rows, exc,
                   calls, geomVars, mainVars>>

\* Lines 21-26: the environment switches that gate the five CSV files.
Flags == {"NODES", "WAYS", "RELATIONS", "MEMBERS", "TAGS"}

\* A CSV file that write_csv_dict has not opened.
NoCsvFile == [opened |-> FALSE, rows |-> <<>>]
NoCsvFiles == [f \in Flags |-> NoCsvFile]

GeomIdle ==
    /\ nds = <<>>
    /\ nd_i = 1
    /\ coords = <<>>
    /\ wkt_geom = ""
    /\ gpc = "done"

MainIdle ==
    /\ argv_len = 1
    /\ flags = {}
    /\ etag_path_bound = FALSE
    /\ adiff_create = <<>>
    /\ m_rows = <<>>
    /\ csv_files = NoCsvFiles
    /\ etag_file = <<>>
    /\ etag_before = <<>>
    /\ etag_opened = FALSE
    /\ mpc = "exit"
    /\ mexc = ""

ParseIdle ==
    /\ doc = <<>>
    /\ i = 1
    /\ nodes_rows = <<>>
    /\ ways_rows = <<>>
    /\ relations_rows = <<>>
    /\ members_rows = <<>>
    /\ tags_rows = <<>>
    /\ pc = "idle"
    /\ exc = ""
    /\ calls = 0

Init ==
    /\ max_changeset_id \in InitialGlobals
    /\ initial_global = max_changeset_id
    /\ ParseIdle
    /\ GeomIdle
    /\ MainIdle

Next ==
    \/ \E d \in Documents : Call(d)
    \/ Iterate
    \/ Return

Spec == Init /\ [][Next]_vars

\* Several calls of parse_osm_create in one process.
NextCalls ==
    \/ Next
    \/ \E d \in Documents : CallAgain(d)

SpecCalls == Init /\ [][NextCalls]_vars

-----------------------------------------------------------------------------
(* The geometry of one way, lines 116-138, one <nd> per step *)

\* <nd> children: with and without inline coordinates.
NdRefs ==
    {[ref |-> "1", lat |-> "0", lon |-> "0"],
     [ref |-> "1", lat |-> "0.0", lon |-> "0.0"],
     [ref |-> "2", lat |-> "0", lon |-> "1"],
     [ref |-> "3", lat |-> "1", lon |-> "1.0"],
     [ref |-> "4", lon |-> "1"],
     [ref |-> "5", lat |-> "north", lon |-> "0"]}

InitGeom ==
    /\ max_changeset_id = Unbound
    /\ initial_global = Unbound
    /\ ParseIdle
    /\ MainIdle
    /\ nds \in UNION {[1..n -> NdRefs] : n \in 0..MaxNds}
    /\ nd_i = 1
    /\ coords = <<>>
    /\ wkt_geom = ""
    /\ gpc = "nd"

\* Lines 117-128: one iteration of the loop over the <nd> children.
GeomNd ==
    /\ gpc = "nd"
    /\ nd_i <= Len(nds)
    /\ coords' = AppendNd(coords, nds[nd_i])
    /\ nd_i' = nd_i + 1
    /\ UNCHANGED <<nds, wkt_geom, gpc, max_changeset_id, initial_global,
                   parseVars, mainVars>>

\* Lines 129-138: the loop is over, the geometry is built.
GeomBuild ==
    /\ gpc = "nd"
    /\ nd_i > Len(nds)
    /\ wkt_geom' = BuildWkt(coords)
    /\ gpc' = "done"
    /\ UNCHANGED <<nds, nd_i, coords, max_changeset_id, initial_global,
                   parseVars, mainVars>>

NextGeom ==
    \/ GeomNd
    \/ GeomBuild

SpecGeom == InitGeom /\ [][NextGeom]_vars

-----------------------------------------------------------------------------
(* main, lines 191-281 *)

node_fields ==
    <<"epochMillis", "id", "version", "changeset", "username", "uid", "lat",
      "lon">>
way_fields ==
    <<"epochMillis", "id", "version", "changeset", "username", "uid",
      "geometry">>
relation_fields ==
    <<"epochMillis", "id", "version", "changeset", "username", "uid",
      "geometry">>
members_fields == <<"relationId", "memberId", "memberRole", "memberType">>
tags_fields == <<"epochMillis", "type", "id", "key", "value">>

\* The objects osmdiff puts in adiff.create: attribs and tags are dicts,
\* members a list.
Created(kind, attribs, tags, members) ==
    [kind |-> kind, attribs |-> attribs, tags |-> tags, members |-> members]

CreatedObjects ==
    {Created("Node", [id |-> "1", version |-> "1", changeset |-> "5"],
             NoAttrib, <<>>),
     Created("Node",
             [id |-> "2", changeset |-> "12", user |-> "ann",
              timestamp |-> "2025-03-03T11:55:24Z"],
             [name |-> "x"], <<>>),
     Created("Way", [id |-> "10", changeset |-> "3"], NoAttrib, <<>>),
     Created("Relation", [id |-> "20", changeset |-> "12"],
             [type |-> "route"], <<>>),
     Created("Relation", [id |-> "21", changeset |-> "5"], [name |-> "y"],
             <<[type |-> "way", ref |-> "10", role |-> "outer"]>>)}

CreatedLists == UNION {[1..n -> CreatedObjects] : n \in 0..MaxCreated}

\* A row handed to csv.DictWriter: a dict, or (the members lists) not a dict.
DictRow(d) == [isdict |-> TRUE, d |-> d]
ListRow(l) == [isdict |-> FALSE, d |-> l]

RECURSIVE OfKind(_, _)
OfKind(objects, kind) ==
    IF objects = <<>> THEN <<>>
    ELSE IF Head(objects).kind = kind
         THEN <<Head(objects)>> \o OfKind(Tail(objects), kind)
         ELSE OfKind(Tail(objects), kind)

\* writer.writerow(row): the cells in field order, "" for an absent key.
Cells(row, fieldnames) ==
    [c \in 1..Len(fieldnames) |->
        IF fieldnames[c] \in DOMAIN row.d THEN row.d[fieldnames[c]] ELSE ""]

Range(seq) == {seq[k] : k \in DOMAIN seq}

\* DictWriter raises for a row that is no dict (AttributeError) or that has a
\* key outside fieldnames (ValueError).
Writable(row, fieldnames) ==
    row.isdict /\ DOMAIN row.d \subseteq Range(fieldnames)

\* Lines 178-182: the file is opened and the header written, then the rows up
\* to the first one the writer refuses.
RECURSIVE WrittenRows(_, _)
WrittenRows(rows, fieldnames) ==
    IF rows = <<>> THEN <<>>
    ELSE IF Writable(Head(rows), fieldnames)
         THEN <<Cells(Head(rows), fieldnames)>>
              \o WrittenRows(Tail(rows), fieldnames)
         ELSE <<>>

WriteRaises(rows, fieldnames) ==
    \E k \in DOMAIN rows : ~Writable(rows[k], fieldnames)

InitMain ==
    /\ max_changeset_id \in {Unbound, Bound(12)}
    /\ initial_global = max_changeset_id
    /\ ParseIdle
    /\ GeomIdle
    /\ argv_len \in {1, 2}
    /\ flags \in SUBSET Flags
    /\ etag_path_bound \in BOOLEAN
    /\ adiff_create = <<>>
    /\ m_rows = <<>>
    /\ csv_files = NoCsvFiles
    /\ etag_before \in {<<>>, <<"7">>}
    /\ etag_file = etag_before
    /\ etag_opened = FALSE
    /\ mpc = "args"
    /\ mexc = ""

\* Lines 192-194.
MainArgs ==
    /\ mpc = "args"
    /\ IF argv_len # 1
       THEN mpc' = "exit" /\ mexc' = "usage"
       ELSE mpc' = "retrieve" /\ mexc' = mexc
    /\ UNCHANGED <<max_changeset_id, initial_global, parseVars, geomVars,
                   argv_len, flags, etag_path_bound, adiff_create, m_rows,
                   csv_files, etag_file, etag_before, etag_opened>>

\* Lines 196-198, outside the try block: retrieve() fills adiff.create, or
\* raises (no response, a document that does not parse) and the run ends
\* with the traceback.
Retrieve ==
    /\ mpc = "retrieve"
    /\ \/ /\ adiff_create' \in CreatedLists
          /\ mpc' = "rows"
          /\ mexc' = mexc
       \/ /\ adiff_create' = adiff_create
          /\ mpc' = "exit"
          /\ mexc' = "retrieve"
    /\ UNCHANGED <<max_changeset_id, initial_global, parseVars, geomVars,
                   argv_len, flags, etag_path_bound, m_rows, csv_files,
                   etag_file, etag_before, etag_opened>>

\* Lines 202-210: the members rows are the member lists themselves, the tags
\* rows the tag dicts of the relations.
BuildRows ==
    /\ mpc = "rows"
    /\ LET nodes == OfKind(adiff_create, "Node")
           ways == OfKind(adiff_create, "Way")
           relations == OfKind(adiff_create, "Relation")
       IN  m_rows' =
             [NODES |-> [k \in DOMAIN nodes |-> DictRow(nodes[k].attribs)],
              WAYS |-> [k \in DOMAIN ways |-> DictRow(ways[k].attribs)],
              RELATIONS |->
                [k \in DOMAIN relations |-> DictRow(relations[k].attribs)],
              MEMBERS |->
                [k \in DOMAIN relations |-> ListRow(relations[k].members)],
              TAGS |-> [k \in DOMAIN relations |-> DictRow(relations[k].tags)]]
    /\ mpc' = "NODES"
    /\ UNCHANGED <<max_changeset_id, initial_global, parseVars, geomVars,
                   argv_len, flags, etag_path_bound, adiff_create, csv_files,
                   etag_file, etag_before, etag_opened, mexc>>

\* One of the five gated write_csv_dict calls of lines 215-261; an exception
\* of the writer goes to the handler of line 275.
WriteCsv(flag, fieldnames, after) ==
    /\ mpc = flag
    /\ IF flag \in flags
       THEN /\ csv_files' =
                 [csv_files EXCEPT ![flag] =
                     [opened |-> TRUE,
                      rows |-> WrittenRows(m_rows[flag], fieldnames)]]
            /\ mpc' = IF WriteRaises(m_rows[flag], fieldnames)
                      THEN "except" ELSE after
       ELSE /\ csv_files' = csv_files
            /\ mpc' = after
    /\ UNCHANGED <<max_changeset_id, initial_global, parseVars, geomVars,
                   argv_len, flags, etag_path_bound, adiff_create, m_rows,
                   etag_file, etag_before, etag_opened, mexc>>

WriteNodes == WriteCsv("NODES", node_fields, "WAYS")
WriteWays == WriteCsv("WAYS", way_fields, "RELATIONS")
WriteRelations == WriteCsv("RELATIONS", relation_fields, "MEMBERS")
WriteMembers == WriteCsv("MEMBERS", members_fields, "TAGS")
WriteTags == WriteCsv("TAGS", tags_fields, "print")

\* ExceptExit as a handler that saves the checkpoint before it exits.
ExceptExitSavesCheckpoint ==
    /\ mpc = "except"
    /\ mpc' = "exit"
    /\ mexc' = "rows"
    /\ etag_opened' = TRUE
    /\ etag_file' = <<>>
    /\ UNCHANGED <<max_changeset_id, initial_global, parseVars, geomVars,
                   argv_len, flags, etag_path_bound, adiff_create, m_rows,
                   csv_files, etag_before>>

\* Lines 275-277: the message and sys.exit(1).
ExceptExit ==
    /\ mpc = "except"
    /\ mpc' = "exit"
    /\ mexc' = "rows"
    /\ UNCHANGED <<max_changeset_id, initial_global, parseVars, geomVars,
                   argv_len, flags, etag_path_bound, adiff_create, m_rows,
                   csv_files, etag_file, etag_before, etag_opened>>

\* Line 279: the f-string reads the global; main never called
\* parse_osm_create, so the global is bound only if a caller bound it.
PrintMax ==
    /\ mpc = "print"
    /\ IF max_changeset_id.bound
       THEN mpc' = "open" /\ mexc' = mexc
       ELSE mpc' = "exit" /\ mexc' = "NameError"
    /\ UNCHANGED <<max_changeset_id, initial_global, parseVars, geomVars,
                   argv_len, flags, etag_path_bound, adiff_create, m_rows,
                   csv_files, etag_file, etag_before, etag_opened>>

\* Line 280: ETAG_PATH is evaluated, then the file is opened for writing,
\* which empties it.
OpenEtag ==
    /\ mpc = "open"
    /\ IF etag_path_bound
       THEN /\ mpc' = "write"
            /\ mexc' = mexc
            /\ etag_opened' = TRUE
            /\ etag_file' = <<>>
       ELSE /\ mpc' = "exit"
            /\ mexc' = "NameError"
            /\ etag_opened' = etag_opened
            /\ etag_file' = etag_file
    /\ UNCHANGED <<max_changeset_id, initial_global, parseVars, geomVars,
                   argv_len, flags, etag_path_bound, adiff_create, m_rows,
                   csv_files, etag_before>>

\* Line 281: write() of a text file takes a str; the global is an int, so the
\* call raises TypeError and the with statement closes the emptied file.
WriteEtag ==
    /\ mpc = "write"
    /\ mpc' = "exit"
    /\ mexc' = "TypeError"
    /\ UNCHANGED <<max_changeset_id, initial_global, parseVars, geomVars,
                   argv_len, flags, etag_path_bound, adiff_create, m_rows,
                   csv_files, etag_file, etag_before, etag_opened>>

NextMain ==
    \/ MainArgs
    \/ Retrieve
    \/ BuildRows
    \/ WriteNodes
    \/ WriteWays
    \/ WriteRelations
    \/ WriteMembers
    \/ WriteTags
    \/ ExceptExit
    \/ PrintMax
    \/ OpenEtag
    \/ WriteEtag

SpecMain == InitMain /\ [][NextMain]_vars

-----------------------------------------------------------------------------
(* The claims *)

ThreeKinds == {"node", "way", "relation"}

\* A create action that holds an element.
IsCreated(action) == action.type = "create" /\ FindElem(action) # NoElem

\* The elements of the create actions of a document, in document order.
CreatedElems(d) ==
    LET created == SelectSeq(d, IsCreated)
    IN  [k \in DOMAIN created |-> FindElem(created[k])]

\* Those of one kind.
CreatedOfKind(d, kind) ==
    LET OfThatKind(e) == e.tag = kind
    IN  SelectSeq(CreatedElems(d), OfThatKind)

Stamp(elem) == EpochMillis(Get(elem.attrib, "timestamp"))

\* The changeset id of an element, 0 when it is missing or no integer.
LenientChangeset(elem) ==
    IF Get(elem.attrib, "changeset") \in DOMAIN DecimalValue
    THEN DecimalValue[Get(elem.attrib, "changeset")]
    ELSE 0

RECURSIVE MaxChangeset(_)
MaxChangeset(elems) ==
    IF elems = <<>> THEN 0
    ELSE Max(LenientChangeset(Head(elems)), MaxChangeset(Tail(elems)))

Ended == pc \in {"returned", "raised"}

\* C1: once parse_osm_create has processed a document, the checkpoint
\* max_changeset_id is the maximum changeset id over the elements of the
\* document's create actions, and 0 when there is none.
C1_CheckpointIsMaxOfCreated ==
    Ended =>
        /\ pc = "returned"
        /\ max_changeset_id = Bound(MaxChangeset(CreatedElems(doc)))

\* The run of main was aborted: wrong usage, a failed retrieval (which
\* includes a document that does not parse), or an exception while the row
\* collections were built or written.
Aborted == mpc = "exit" /\ mexc \in {"usage", "retrieve", "rows"}

\* C2: in a run of main that aborts, the checkpoint file is never opened for
\* writing and holds its prior content when the process exits.
C2_AbortLeavesCheckpoint ==
    (mpc = "except" \/ Aborted) => ~etag_opened /\ etag_file = etag_before

C2_Witness ==
    /\ Aborted
    /\ mexc = "rows"
    /\ etag_before = <<"7">>
    /\ csv_files["NODES"].opened
    /\ max_changeset_id.bound
    /\ etag_path_bound

Digit == <<"0", "1", "2", "3", "4", "5", "6", "7", "8", "9">>

\* The decimal text of a natural number, character by character.
RECURSIVE DecimalText(_)
DecimalText(n) ==
    IF n < 10 THEN <<Digit[n + 1]>>
    ELSE DecimalText(n \div 10) \o <<Digit[(n % 10) + 1]>>

\* C3: a run of main whose retrieval and row processing complete without
\* error ends with the checkpoint file holding exactly the decimal text of
\* the final checkpoint.
C3_CheckpointFileWritten ==
    (mpc = "exit" /\ ~Aborted) =>
        /\ max_changeset_id.bound
        /\ etag_file = DecimalText(max_changeset_id.val)

\* The action the loop is about to process.
AtAction == pc = "loop" /\ i <= Len(doc)

RowsUnchanged ==
    UNCHANGED <<nodes_rows, ways_rows, relations_rows, members_rows,
                tags_rows>>

\* C4: a create element whose changeset attribute is missing or no integer
\* counts as 0 in the checkpoint fold and raises nothing: the checkpoint is
\* unchanged by it and the loop goes on to the next action. (Stated for a
\* bound global, where line 86 reaches int().)
C4_LenientChangeset ==
    [][(/\ AtAction
        /\ max_changeset_id.bound
        /\ IsCreated(doc[i])
        /\ Get(FindElem(doc[i]).attrib, "changeset") \notin DOMAIN DecimalValue)
       => (/\ pc' = "loop"
           /\ i' = i + 1
           /\ max_changeset_id' = max_changeset_id)]_vars

\* The list L of C5: the (lon, lat) pairs of the <nd> children that carry
\* parseable inline lat and lon, in document order.
Usable(nd) ==
    Get(nd, "lat") \in DOMAIN FloatValue /\ Get(nd, "lon") \in DOMAIN FloatValue

UsableCoords(ndrefs) ==
    LET usable == SelectSeq(ndrefs, Usable)
    IN  [k \in DOMAIN usable |->
            <<FloatValue[usable[k].lon], FloatValue[usable[k].lat]>>]

ClaimedGeometry(L) ==
    IF L = <<>> THEN ""
    ELSE IF Len(L) >= 4 /\ L[1] = L[Len(L)]
         THEN "POLYGON((" \o CoordStr(L) \o "))"
         ELSE "LINESTRING(" \o CoordStr(L) \o ")"

\* C5: for a way with L the usable coordinates of its <nd> children in
\* document order, the geometry is "" if L is empty, a POLYGON over L if
\* len(L) >= 4 and L[0] = L[-1], otherwise a LINESTRING over L; <nd> children
\* without usable coordinates are dropped and the way is still built.
C5_WayGeometry ==
    /\ coords = UsableCoords(SubSeq(nds, 1, nd_i - 1))
    /\ gpc = "done" => wkt_geom = ClaimedGeometry(UsableCoords(nds))

C5_Witness ==
    /\ gpc = "done"
    /\ Len(nds) = 5
    /\ Len(coords) = 4
    /\ wkt_geom = "POLYGON((0.0 0.0, 1.0 0.0, 1.0 1.0, 0.0 0.0))"

\* The member rows C6 expects of one relation, in member order.
MemberRows(rel) ==
    [m \in DOMAIN rel.members |->
        [relationId |-> Get(rel.attrib, "id"),
         memberId |-> Get(rel.members[m], "ref"),
         memberRole |-> Get(rel.members[m], "role"),
         memberType |-> Get(rel.members[m], "type")]]

RECURSIVE AllMemberRows(_)
AllMemberRows(rels) ==
    IF rels = <<>> THEN <<>>
    ELSE MemberRows(Head(rels)) \o AllMemberRows(Tail(rels))

\* C6: the returned members collection holds one row per member child of
\* every created relation, the rows of a relation in the order of its members.
C6_MemberRows ==
    pc = "returned" =>
        members_rows = AllMemberRows(CreatedOfKind(doc, "relation"))

\* The key/value pairs C7 expects as tag rows of an element: its attributes
\* and its tags, but for the key id.
ClaimedPairs(elem) ==
    {<<a, elem.attrib[a]>> : a \in DOMAIN elem.attrib \ {"id"}}
    \cup {<<Get(elem.tags[t], "k"), Get(elem.tags[t], "v")>> :
            t \in {u \in DOMAIN elem.tags : Get(elem.tags[u], "k") # "id"}}

TagRowsOf(elem, pair) ==
    {t \in DOMAIN tags_rows :
        /\ tags_rows[t].type = elem.tag
        /\ tags_rows[t].id = Get(elem.attrib, "id")
        /\ tags_rows[t].key = pair[1]
        /\ tags_rows[t].value = pair[2]}

Occurrences(elems, elem) == Cardinality({k \in DOMAIN elems : elems[k] = elem})

\* C7: for every created node, way and relation the tags collection holds
\* one row per attribute/tag pair of the element other than the key id, and
\* no row has the key id.
C7_TagRows ==
    pc = "returned" =>
        /\ \A t \in DOMAIN tags_rows : tags_rows[t].key # "id"
        /\ \A k \in DOMAIN CreatedElems(doc) :
             LET elem == CreatedElems(doc)[k]
             IN  elem.tag \in ThreeKinds =>
                   \A pair \in ClaimedPairs(elem) :
                      Cardinality(TagRowsOf(elem, pair)) =
                         Occurrences(CreatedElems(doc), elem)

\* C8, the rows: each of the nodes, ways and relations collections is the
\* document-order subsequence of the created elements of its kind among the
\* actions processed so far.
C8_RowsInDocumentOrder ==
    pc \in {"loop", "returned", "raised"} =>
        LET done == SubSeq(doc, 1, i - 1)
            nodes == CreatedOfKind(done, "node")
            ways == CreatedOfKind(done, "way")
            relations == CreatedOfKind(done, "relation")
        IN  /\ nodes_rows =
                 [k \in DOMAIN nodes |-> NodeRow(nodes[k], Stamp(nodes[k]))]
            /\ ways_rows =
                 [k \in DOMAIN ways |-> WayRow(ways[k], Stamp(ways[k]))]
            /\ relations_rows =
                 [k \in DOMAIN relations |->
                     RelationRow(relations[k], Stamp(relations[k]))]

\* C8, the filter: an action that is no create action adds no row and leaves
\* the checkpoint as it is.
C8_OnlyCreateActs ==
    (AtAction /\ doc[i].type # "create") =>
        /\ RowsUnchanged
        /\ max_changeset_id' = max_changeset_id
        /\ pc' = "loop"

\* C8: the nodes, ways and relations collections are exactly the created
\* elements of their kind in document order; modify and delete actions
\* contribute no row and do not change the checkpoint.
C8_CreateRowsOnly == []C8_RowsInDocumentOrder /\ [][C8_OnlyCreateActs]_vars

C8_Witness ==
    /\ pc = "returned"
    /\ Len(doc) = 2
    /\ doc[1].type = "modify"
    /\ FindElem(doc[1]).tag = "relation"
    /\ Len(ways_rows) = 1
    /\ relations_rows = <<>>
    /\ max_changeset_id = Bound(3)

\* C9: a create action whose element has an unrecognized type is skipped
\* entirely: no row in any of the five collections, no change of the
\* checkpoint, and the loop goes on to the next action. (Stated for a bound
\* global and an integer changeset, where line 86 raises nothing.)
C9_UnknownTypeSkipped ==
    [][(/\ AtAction
        /\ max_changeset_id.bound
        /\ IsCreated(doc[i])
        /\ Get(FindElem(doc[i]).attrib, "changeset") \in DOMAIN DecimalValue
        /\ FindElem(doc[i]).tag \notin ThreeKinds)
       => (/\ RowsUnchanged
           /\ max_changeset_id' = max_changeset_id
           /\ pc' = "loop"
           /\ i' = i + 1)]_vars

\* parse_osm_create on a document, from the loop's first action to the return
\* or the exception.
RECURSIVE RunLoop(_, _)
RunLoop(st, d) ==
    IF d = <<>> \/ st.exc # "" THEN st
    ELSE RunLoop(ProcessAction(st, Head(d)), Tail(d))

\* The outcome of processing a document alone, as the first call of the
\* process.
Alone(d) == RunLoop(Frame(initial_global, <<>>, <<>>, <<>>, <<>>, <<>>, ""), d)

\* C10: processing a document after other documents yields the same five row
\* collections and the same checkpoint as processing it alone.
C10_NoCrossDiffState ==
    Ended =>
        Frame(max_changeset_id, nodes_rows, ways_rows, relations_rows,
              members_rows, tags_rows, exc) = Alone(doc)

====
